---------------------------- MODULE Spec2Model ----------------------------
(***************************************************************************)
(* scripts/generate-icons.py: a hand-written PNG encoder (create_png,      *)
(* png_chunk) and the module-level driver that writes three icon files.    *)
(*                                                                         *)
(* Three specifications over one set of variables:                        *)
(*   Spec       one call of create_png, statement by statement            *)
(*   SpecChunk  png_chunk and the IHDR packing as pure functions          *)
(*   SpecMain   the module-level driver, lines 48-73                      *)
(*                                                                         *)
(* Bytes are integers 0..255, byte strings are sequences of bytes.  A      *)
(* 32-bit unsigned word is the set of its bit positions that are 1 (bit 0  *)
(* is the least significant): a CRC-32 does not fit TLC's integers.        *)
(***************************************************************************)
EXTENDS Integers, Sequences, FiniteSets

\* ------------------------------------------------------------------ bounds
\* Largest width and height of an image whose pixel loop is run.
MaxDim == 3
\* Longest payload handed to png_chunk in SpecChunk.
MaxPayload == 3
\* Longest deflate body the compression library may return.
MaxBody == 2

\* Base colour components tried (99, 102, 241 is the driver's indigo).
Colours == {0, 90, 99, 102, 241, 255}
\* Dimensions tried for the IHDR packing alone (one to four significant bytes).
WideDims == {1, 192, 512, 65537, 16909060, 2147483647}
\* Payload bytes tried in SpecChunk.
PayloadBytes == {0, 255}

\* ------------------------------------------------------------ byte strings
IHDR == <<73, 72, 68, 82>>
IDAT == <<73, 68, 65, 84>>
IEND == <<73, 69, 78, 68>>
tEXt == <<116, 69, 88, 116>>

\* line 16: b'\x89PNG\r\n\x1a\n'
signature == <<137, 80, 78, 71, 13, 10, 26, 10>>

\* The 32-bit word of a natural number below 2^31.
Word(n) == {i \in 0..30 : (n \div 2^i) % 2 = 1}

\* Byte k (0 = least significant) of a 32-bit word.
ByteOf(word, k) ==
    LET bit(i) == IF (8 * k + i) \in word THEN 2^i ELSE 0
    IN  bit(0) + bit(1) + bit(2) + bit(3) + bit(4) + bit(5) + bit(6) + bit(7)

\* struct.pack('>I', v): four bytes, most significant first.
pack_I(word) == <<ByteOf(word, 3), ByteOf(word, 2), ByteOf(word, 1), ByteOf(word, 0)>>

\* zlib.crc32: polynomial 0xEDB88320 (reflected), register starts at
\* 0xFFFFFFFF, one byte at a time, low bit first, complemented at the end.
Poly == {5, 8, 9, 15, 19, 20, 21, 23, 24, 26, 27, 29, 30, 31}
Xor(a, b) == {i \in 0..31 : (i \in a) # (i \in b)}
Shr(a) == {i \in 0..30 : (i + 1) \in a}

\* One bit of input consumed: shift right, and subtract the polynomial
\* when the bit shifted out was 1.
crc_shift1(reg) == IF 0 \in reg THEN Xor(Shr(reg), Poly) ELSE Shr(reg)
crc_shift8(reg) ==
    crc_shift1(crc_shift1(crc_shift1(crc_shift1(
    crc_shift1(crc_shift1(crc_shift1(crc_shift1(reg))))))))

\* zlib's table: entry n is the register n after eight shifts.
crc_table(n) == crc_shift8(Word(n))
Shr8(a) == {i \in 0..23 : (i + 8) \in a}

\* The register after the first n bytes of s, a byte at a time as zlib does:
\* reg = (reg >> 8) ^ table[(reg ^ byte) & 0xff].
RECURSIVE crc_reg(_, _)
crc_reg(s, n) ==
    IF n = 0 THEN 0..31
    ELSE LET prev == crc_reg(s, n - 1)
         IN  Xor(Shr8(prev), crc_table(ByteOf(Xor(prev, Word(s[n])), 0)))

crc32(s) ==
    LET reg == crc_reg(s, Len(s))
    IN  {i \in 0..31 : i \notin reg}

\* lines 9-13: png_chunk(chunk_type, data)
png_chunk_crc_data_only(chunk_type, data) ==
    pack_I(Word(Len(data))) \o (chunk_type \o data) \o pack_I(crc32(data))
png_chunk(chunk_type, data) ==
    LET chunk == chunk_type \o data
        crc   == crc32(chunk)
    IN  pack_I(Word(Len(data))) \o chunk \o pack_I(crc)

\* line 19: struct.pack('>IIBBBBB', width, height, 8, 2, 0, 0, 0)
ihdr_data_swapped(w, h) == pack_I(Word(h)) \o pack_I(Word(w)) \o <<8, 2, 0, 0, 0>>
ihdr_data(w, h) == pack_I(Word(w)) \o pack_I(Word(h)) \o <<8, 2, 0, 0, 0>>

\* zlib's Adler-32 of the uncompressed data, as the four bytes that end a
\* zlib stream.
RECURSIVE adler_ab(_, _)
adler_ab(s, n) ==
    IF n = 0 THEN <<1, 0>>
    ELSE LET p == adler_ab(s, n - 1)
             a == (p[1] + s[n]) % 65521
         IN  <<a, (p[2] + a) % 65521>>

adler32(s) ==
    LET p == adler_ab(s, Len(s))
    IN  <<p[2] \div 256, p[2] % 256, p[1] \div 256, p[1] % 256>>

\* The deflate bodies the library may produce: the encoder treats them as
\* opaque bytes, so one byte string of each length up to MaxBody stands for
\* them.
DeflateBodies == {[i \in 1..n |-> (99 * i) % 256] : n \in 1..MaxBody}

\* line 40: zlib.compress(bytes(raw_data), 9): the zlib header of level 9
\* (78 DA), a deflate body, the Adler-32 of the input.
compress(raw, body) == <<120, 218>> \o body \o adler32(raw)

\* ------------------------------------------------------------- the gradient
\* lines 24-26, 32: center_x = width/2, center_y = height/2; the squares of
\* max_dist and of dist, both times 4 to stay integral.
max_dist2(w, h) == w * w + h * h
dist2_pixel_centre(px, py, w, h) ==
    (2 * px + 1 - w) * (2 * px + 1 - w) + (2 * py + 1 - h) * (2 * py + 1 - h)
dist2(px, py, w, h) == (2 * px - w) * (2 * px - w) + (2 * py - h) * (2 * py - h)

\* The components c whose double product c * 0.7 lies just below the integer
\* 7c/10 (the double nearest 0.7 is below 0.7, and the product rounds down).
RoundsBelow == {90, 170, 180}

\* lines 33, 35-37: int(c * factor), factor = 1 - (dist / max_dist) * 0.3.
\* In real arithmetic c * factor = c - k with k = 0.3 * c * dist / max_dist,
\* and int() cuts it to c - (the least integer at or above k): the least k
\* with 10 * k * max_dist >= 3 * c * dist, compared here by squares.  The
\* doubles agree with it (every width and height up to 8, every c in 0..255)
\* except at dist = max_dist, where factor is the double 0.7 and the
\* components of RoundsBelow come out one lower.
TruncExact(c, px, py, w, h) ==
    LET enough(k) == 100 * k * k * max_dist2(w, h) >= 9 * c * c * dist2(px, py, w, h)
        least == CHOOSE k \in 0..c : enough(k) /\ (k = 0 \/ ~enough(k - 1))
    IN  c - least

channel(c, px, py, w, h) ==
    IF dist2(px, py, w, h) = max_dist2(w, h) /\ c \in RoundsBelow
    THEN (7 * c) \div 10 - 1
    ELSE TruncExact(c, px, py, w, h)

\* ------------------------------------------------------------------- state
VARIABLES
    \* one call of create_png
    pc,         \* the statement create_png is at
    width, height, r, g, b,   \* its arguments
    ihdr,       \* line 20
    raw_data,   \* line 23
    x, y,       \* the loop variables of lines 28 and 30
    idat,       \* line 41
    iend,       \* line 44
    result,     \* the value returned at line 46
    \* png_chunk and the IHDR packing as functions
    fn_in, fn_out,
    \* the driver
    mpc,        \* the statement the driver is at
    png,        \* png_192, png_512, png_180: icon number -> value or None
    fs,         \* the public directory: file name -> content
    fs0,        \* the directory as the run found it
    handle,     \* the file the with-block holds open, or None
    writes,     \* file name -> number of f.write calls made on it
    stdout      \* the lines printed so far

enc_vars == <<pc, width, height, r, g, b, ihdr, raw_data, x, y, idat, iend, result>>
fn_vars == <<fn_in, fn_out>>
main_vars == <<mpc, png, fs, fs0, handle, writes, stdout>>
vars == <<enc_vars, fn_vars, main_vars>>

None == "None"

\* The variables of the other two specifications, at rest.
EncIdle ==
    /\ pc = "idle" /\ width = 0 /\ height = 0 /\ r = 0 /\ g = 0 /\ b = 0
    /\ ihdr = <<>> /\ raw_data = <<>> /\ x = 0 /\ y = 0
    /\ idat = <<>> /\ iend = <<>> /\ result = <<>>
FnIdle == fn_in = None /\ fn_out = <<>>
MainIdle ==
    /\ mpc = [stmt |-> "idle", icon |-> 0]
    /\ png = <<>> /\ fs = <<>> /\ fs0 = <<>>
    /\ handle = None /\ writes = <<>> /\ stdout = <<>>

\* ------------------------------------------------------- create_png, Spec
\* A call with valid arguments: positive dimensions, components in 0..255.
Init ==
    /\ pc = "ihdr"
    /\ width \in 1..MaxDim /\ height \in 1..MaxDim
    /\ r \in Colours /\ g \in Colours /\ b \in Colours
    /\ ihdr = <<>> /\ raw_data = <<>> /\ x = 0 /\ y = 0
    /\ idat = <<>> /\ iend = <<>> /\ result = <<>>
    /\ FnIdle /\ MainIdle

\* lines 16-26: the IHDR chunk, the empty buffer, the centre.
MakeIHDR ==
    /\ pc = "ihdr"
    /\ ihdr' = png_chunk(IHDR, ihdr_data(width, height))
    /\ raw_data' = <<>>
    /\ y' = 0
    /\ pc' = "rows"
    /\ UNCHANGED <<width, height, r, g, b, x, idat, iend, result>>
    /\ UNCHANGED <<fn_vars, main_vars>>

\* lines 28-29: the next row starts with its filter byte.
RowStart_no_filter ==
    /\ pc = "rows" /\ y < height
    /\ raw_data' = raw_data
    /\ x' = 0
    /\ pc' = "cols"
    /\ UNCHANGED <<width, height, r, g, b, ihdr, y, idat, iend, result>>
    /\ UNCHANGED <<fn_vars, main_vars>>
RowStart ==
    /\ pc = "rows" /\ y < height
    /\ raw_data' = Append(raw_data, 0)
    /\ x' = 0
    /\ pc' = "cols"
    /\ UNCHANGED <<width, height, r, g, b, ihdr, y, idat, iend, result>>
    /\ UNCHANGED <<fn_vars, main_vars>>

\* lines 30-37: one pixel, three bytes.
PixelStep ==
    /\ pc = "cols" /\ x < width
    /\ raw_data' = raw_data \o <<channel(r, x, y, width, height),
                                  channel(g, x, y, width, height),
                                  channel(b, x, y, width, height)>>
    /\ x' = x + 1
    /\ UNCHANGED <<pc, width, height, r, g, b, ihdr, y, idat, iend, result>>
    /\ UNCHANGED <<fn_vars, main_vars>>

\* line 30 exhausted: back to line 28 for the next row.
RowEnd ==
    /\ pc = "cols" /\ x = width
    /\ y' = y + 1
    /\ pc' = "rows"
    /\ UNCHANGED <<width, height, r, g, b, ihdr, raw_data, x, idat, iend, result>>
    /\ UNCHANGED <<fn_vars, main_vars>>

\* lines 40-41: line 28 exhausted; compress the buffer, wrap it as IDAT.
Compress ==
    /\ pc = "rows" /\ y = height
    /\ \E body \in DeflateBodies :
           idat' = png_chunk(IDAT, compress(raw_data, body))
    /\ pc' = "iend"
    /\ UNCHANGED <<width, height, r, g, b, ihdr, raw_data, x, y, iend, result>>
    /\ UNCHANGED <<fn_vars, main_vars>>

\* line 44
MakeIEND ==
    /\ pc = "iend"
    /\ iend' = png_chunk(IEND, <<>>)
    /\ pc' = "return"
    /\ UNCHANGED <<width, height, r, g, b, ihdr, raw_data, x, y, idat, result>>
    /\ UNCHANGED <<fn_vars, main_vars>>

\* line 46
Return_no_iend ==
    /\ pc = "return"
    /\ result' = signature \o ihdr \o idat
    /\ pc' = "done"
    /\ UNCHANGED <<width, height, r, g, b, ihdr, raw_data, x, y, idat, iend>>
    /\ UNCHANGED <<fn_vars, main_vars>>
Return ==
    /\ pc = "return"
    /\ result' = signature \o ihdr \o idat \o iend
    /\ pc' = "done"
    /\ UNCHANGED <<width, height, r, g, b, ihdr, raw_data, x, y, idat, iend>>
    /\ UNCHANGED <<fn_vars, main_vars>>

Next ==
    \/ MakeIHDR
    \/ RowStart
    \/ PixelStep
    \/ RowEnd
    \/ Compress
    \/ MakeIEND
    \/ Return

Spec == Init /\ [][Next]_vars

\* ------------------------------------- png_chunk as a function, SpecChunk
Tags == {IHDR, IDAT, IEND, tEXt}
Payloads == UNION {[1..n -> PayloadBytes] : n \in 0..MaxPayload}

\* The arguments of one call: of png_chunk, or of create_png as far as its
\* lines 18-20 go.
FnInputs ==
    {[fn |-> "png_chunk", type |-> type, data |-> data] :
        type \in Tags, data \in Payloads}
    \cup
    {[fn |-> "create_png", width |-> w, height |-> h, rgb |-> rgb] :
        w \in WideDims, h \in WideDims, rgb \in Colours \X Colours \X Colours}

FnInit == fn_in \in FnInputs /\ fn_out = <<>> /\ EncIdle /\ MainIdle

\* lines 9-13 applied to a type tag and a payload.
ApplyChunk ==
    /\ fn_in.fn = "png_chunk" /\ fn_out = <<>>
    /\ fn_out' = png_chunk(fn_in.type, fn_in.data)
    /\ UNCHANGED <<fn_in, enc_vars, main_vars>>

\* lines 18-20 of a call create_png(w, h, r, g, b): the IHDR chunk.
ApplyHeader ==
    /\ fn_in.fn = "create_png" /\ fn_out = <<>>
    /\ fn_out' = png_chunk(IHDR, ihdr_data(fn_in.width, fn_in.height))
    /\ UNCHANGED <<fn_in, enc_vars, main_vars>>

FnNext ==
    \/ ApplyChunk
    \/ ApplyHeader

SpecChunk == FnInit /\ [][FnNext]_vars

\* ------------------------------------------------- the driver, SpecMain
\* lines 55-71: the three icons in the order the script makes them.
Icons == 1..3
IconSize == <<192, 512, 180>>
IconFile == <<"pwa-192x192.png", "pwa-512x512.png", "apple-touch-icon.png">>
\* line 53
BaseColour == <<99, 102, 241>>
\* lines 59, 65, 71, 73
Created(i) == <<"Created pwa-192x192.png", "Created pwa-512x512.png",
                "Created apple-touch-icon.png">>[i]
AllCreated == "All PWA icons created successfully!"

\* The public directory: the three icon files and one file the script
\* does not name.
OtherFile == "favicon.ico"
Files == {IconFile[i] : i \in Icons} \cup {OtherFile}

\* The value create_png returns, lines 16-46: the signature and the chunks
\* as Spec builds them.  The IDAT chunk of a 192x192 image is too long to
\* enumerate; it is named by the arguments that determine it.
create_png(w, h, cr, cg, cb) ==
    [head    |-> signature \o png_chunk(IHDR, ihdr_data(w, h)),
     idat_of |-> <<w, h, cr, cg, cb>>,
     tail    |-> png_chunk(IEND, <<>>)]

\* A png_N variable not assigned yet.
NoImage == [head |-> <<>>, idat_of |-> <<>>, tail |-> <<>>]

\* What a file holds: nothing (it does not exist), what an earlier program
\* left, zero bytes (just opened with 'wb'), a proper prefix of an image (a
\* write that failed part-way), or a whole image.
Absent == [kind |-> "absent", image |-> NoImage]
Stale == [kind |-> "stale", image |-> NoImage]
Empty == [kind |-> "empty", image |-> NoImage]
PartOf(image) == [kind |-> "partial", image |-> image]
Whole(image) == [kind |-> "whole", image |-> image]

At(stmt, i) == mpc = [stmt |-> stmt, icon |-> i]
Goto(stmt, i) == mpc' = [stmt |-> stmt, icon |-> i]

\* The script starts in a directory that holds any of the four files or not.
MainInit ==
    /\ mpc = [stmt |-> "create_png", icon |-> 1]
    /\ png = [i \in Icons |-> NoImage]
    /\ fs \in [Files -> {Absent, Stale}]
    /\ fs0 = fs
    /\ handle = None
    /\ writes = [f \in Files |-> 0]
    /\ stdout = <<>>
    /\ EncIdle /\ FnIdle

\* lines 56, 62, 68: png_N = create_png(N, N, r, g, b)
Encode(i) ==
    /\ At("create_png", i)
    /\ png' = [png EXCEPT ![i] = create_png(IconSize[i], IconSize[i],
                                            BaseColour[1], BaseColour[2], BaseColour[3])]
    /\ Goto("open", i)
    /\ UNCHANGED <<fs, fs0, handle, writes, stdout>>
    /\ UNCHANGED <<enc_vars, fn_vars>>

\* The same lines when the call raises (the buffer or the compression runs
\* out of memory): nothing catches it.
EncodeFails(i) ==
    /\ At("create_png", i)
    /\ Goto("aborted", i)
    /\ UNCHANGED <<png, fs, fs0, handle, writes, stdout>>
    /\ UNCHANGED <<enc_vars, fn_vars>>

\* lines 57, 63, 69: open(path, 'wb') creates the file or cuts it to zero.
Open(i) ==
    /\ At("open", i)
    /\ fs' = [fs EXCEPT ![IconFile[i]] = Empty]
    /\ handle' = IconFile[i]
    /\ Goto("write", i)
    /\ UNCHANGED <<png, fs0, writes, stdout>>
    /\ UNCHANGED <<enc_vars, fn_vars>>

\* open() raises (no such directory, no permission): nothing catches it.
OpenFails_continue(i) ==
    /\ At("open", i)
    /\ IF i < 3 THEN Goto("create_png", i + 1) ELSE Goto("final", 0)
    /\ UNCHANGED <<png, fs, fs0, handle, writes, stdout>>
    /\ UNCHANGED <<enc_vars, fn_vars>>
OpenFails(i) ==
    /\ At("open", i)
    /\ Goto("aborted", i)
    /\ UNCHANGED <<png, fs, fs0, handle, writes, stdout>>
    /\ UNCHANGED <<enc_vars, fn_vars>>

\* lines 58, 64, 70: f.write(png_N)
Write_first_png(i) ==
    /\ At("write", i)
    /\ fs' = [fs EXCEPT ![handle] = Whole(png[1])]
    /\ writes' = [writes EXCEPT ![handle] = @ + 1]
    /\ Goto("close", i)
    /\ UNCHANGED <<png, fs0, handle, stdout>>
    /\ UNCHANGED <<enc_vars, fn_vars>>
Write(i) ==
    /\ At("write", i)
    /\ fs' = [fs EXCEPT ![handle] = Whole(png[i])]
    /\ writes' = [writes EXCEPT ![handle] = @ + 1]
    /\ Goto("close", i)
    /\ UNCHANGED <<png, fs0, handle, stdout>>
    /\ UNCHANGED <<enc_vars, fn_vars>>

\* f.write raises (disk full, I/O error): the file keeps what got through,
\* the with-block closes it and the error goes on up.
WriteFails(i) ==
    /\ At("write", i)
    /\ \E left \in {Empty, PartOf(png[i])} : fs' = [fs EXCEPT ![handle] = left]
    /\ writes' = [writes EXCEPT ![handle] = @ + 1]
    /\ handle' = None
    /\ Goto("aborted", i)
    /\ UNCHANGED <<png, fs0, stdout>>
    /\ UNCHANGED <<enc_vars, fn_vars>>

\* The end of the with-block: the file is closed.
Close_left_open(i) ==
    /\ At("close", i)
    /\ Goto("print", i)
    /\ UNCHANGED <<png, fs, fs0, handle, writes, stdout>>
    /\ UNCHANGED <<enc_vars, fn_vars>>
Close(i) ==
    /\ At("close", i)
    /\ handle' = None
    /\ Goto("print", i)
    /\ UNCHANGED <<png, fs, fs0, writes, stdout>>
    /\ UNCHANGED <<enc_vars, fn_vars>>

\* lines 59, 65, 71: print('Created ...'), then on to the next icon.
PrintCreated(i) ==
    /\ At("print", i)
    /\ stdout' = Append(stdout, Created(i))
    /\ IF i < 3 THEN Goto("create_png", i + 1) ELSE Goto("final", 0)
    /\ UNCHANGED <<png, fs, fs0, handle, writes>>
    /\ UNCHANGED <<enc_vars, fn_vars>>

\* line 73
PrintAll ==
    /\ At("final", 0)
    /\ stdout' = Append(stdout, AllCreated)
    /\ Goto("done", 0)
    /\ UNCHANGED <<png, fs, fs0, handle, writes>>
    /\ UNCHANGED <<enc_vars, fn_vars>>

MainNext ==
    \/ \E i \in Icons : Encode(i)
    \/ \E i \in Icons : EncodeFails(i)
    \/ \E i \in Icons : Open(i)
    \/ \E i \in Icons : OpenFails(i)
    \/ \E i \in Icons : Write(i)
    \/ \E i \in Icons : WriteFails(i)
    \/ \E i \in Icons : Close(i)
    \/ \E i \in Icons : PrintCreated(i)
    \/ PrintAll

SpecMain == MainInit /\ [][MainNext]_vars

\* ------------------------------------------------- reading the output back
\* A big-endian uint32 read at s[pos..pos+3] (below 2^31).
unpack_I(s, pos) ==
    s[pos] * 16777216 + s[pos + 1] * 65536 + s[pos + 2] * 256 + s[pos + 3]

\* The chunks of a PNG stream from position pos on, as a decoder reads them:
\* length, type, data, CRC, then the next one.  Bytes that do not make up a
\* whole chunk give a last entry with whole = FALSE.
RECURSIVE Chunks(_, _)
Chunks(s, pos) ==
    IF pos > Len(s) THEN <<>>
    ELSE IF pos + 11 > Len(s) \/ s[pos] >= 128
         THEN <<[whole |-> FALSE, type |-> <<>>, data |-> <<>>]>>
    ELSE LET n == unpack_I(s, pos)
         IN  IF pos + 11 + n > Len(s)
             THEN <<[whole |-> FALSE, type |-> <<>>, data |-> <<>>]>>
             ELSE <<[whole |-> TRUE,
                     type  |-> SubSeq(s, pos + 4, pos + 7),
                     data  |-> SubSeq(s, pos + 8, pos + 7 + n)]>>
                  \o Chunks(s, pos + 12 + n)

\* The row loop of lines 28-37 has ended.
LoopEnded == (pc = "rows" /\ y = height) \/ pc \in {"iend", "return", "done"}

\* The bytes of one scanline of the buffer.
Stride == 1 + width * 3
\* The three bytes of pixel (px, py) in the buffer.
PixelAt(px, py) ==
    SubSeq(raw_data, py * Stride + 3 * px + 2, py * Stride + 3 * px + 4)
\* Pixel (px, py) has been appended to the buffer.
Emitted(px, py) == Len(raw_data) >= py * Stride + 3 * px + 4

\* C1: the stream create_png returns is the 8-byte signature
\* 89 50 4E 47 0D 0A 1A 0A, then exactly three whole chunks, IHDR, IDAT and
\* IEND in this order, the IEND with no data, and nothing after them.
C1_SignatureThenThreeChunks ==
    pc = "done" =>
        /\ Len(result) >= 8
        /\ SubSeq(result, 1, 8) = <<137, 80, 78, 71, 13, 10, 26, 10>>
        /\ LET cs == Chunks(result, 9)
           IN  /\ Len(cs) = 3
               /\ \A i \in 1..3 : cs[i].whole
               /\ cs[1].type = <<73, 72, 68, 82>>
               /\ cs[2].type = <<73, 68, 65, 84>>
               /\ cs[3].type = <<73, 69, 78, 68>>
               /\ cs[3].data = <<>>

C1_Witness ==
    /\ pc = "done" /\ width = 2 /\ height = 3
    /\ Len(Chunks(result, 9)) = 3
    /\ Len(Chunks(result, 9)[2].data) > 6

\* C3 as stated: the pixel at column floor(width/2), row floor(height/2)
\* has colour (r, g, b), whatever the dimensions.
C3_CentreIsBaseColour ==
    LoopEnded => PixelAt(width \div 2, height \div 2) = <<r, g, b>>

\* C3 amended: when width and height are both even, the pixel at column
\* width/2, row height/2 has colour (r, g, b): its dist is 0.
C3_EvenCentreIsBaseColour ==
    (LoopEnded /\ width % 2 = 0 /\ height % 2 = 0) =>
        /\ dist2(width \div 2, height \div 2, width, height) = 0
        /\ PixelAt(width \div 2, height \div 2) = <<r, g, b>>

C3_Witness ==
    /\ LoopEnded /\ width = 2 /\ height = 2
    /\ r = 99 /\ g = 102 /\ b = 241
    /\ PixelAt(1, 1) = <<99, 102, 241>>
    /\ PixelAt(0, 0) # <<99, 102, 241>>

C5_BufferLayout ==
    LoopEnded =>
        /\ Len(raw_data) = height * (1 + width * 3)
        /\ \A row \in 0..(height - 1) :
              /\ raw_data[row * (1 + width * 3) + 1] = 0
              /\ \A col \in 0..(width - 1) :
                    SubSeq(raw_data, row * (1 + width * 3) + 3 * col + 2,
                                     row * (1 + width * 3) + 3 * col + 4)
                        = <<channel(r, col, row, width, height),
                            channel(g, col, row, width, height),
                            channel(b, col, row, width, height)>>

C5_Witness ==
    /\ pc = "rows" /\ y = height /\ width = 3 /\ height = 2
    /\ r = 255 /\ g = 102 /\ b = 0
    /\ Len(raw_data) = 20
    /\ raw_data[11] = 0
    /\ raw_data[12] # raw_data[15]

C2_HeaderReadsBack ==
    (fn_in.fn = "create_png" /\ fn_out # <<>>) =>
        LET cs == Chunks(fn_out, 1)
        IN  /\ Len(cs) = 1 /\ cs[1].whole
            /\ cs[1].type = <<73, 72, 68, 82>>
            /\ Len(cs[1].data) = 13
            /\ unpack_I(cs[1].data, 1) = fn_in.width
            /\ unpack_I(cs[1].data, 5) = fn_in.height
            /\ SubSeq(cs[1].data, 9, 13) = <<8, 2, 0, 0, 0>>

C2_Witness ==
    /\ fn_in.fn = "create_png" /\ fn_in.width = 16909060 /\ fn_in.height = 512
    /\ fn_in.rgb = <<99, 102, 241>>
    /\ fn_out = <<0, 0, 0, 13, 73, 72, 68, 82, 1, 2, 3, 4, 0, 0, 2, 0,
                  8, 2, 0, 0, 0, 130, 210, 123, 13>>

\* C6: png_chunk(type, data) is uint32_be(len(data)) + type + data +
\* uint32_be(crc32(type + data)): the length counts the data bytes only, the
\* CRC covers type and data and not the length field, and the chunk is
\* len(data) + 12 bytes long.
C6_ChunkLayout ==
    (fn_in.fn = "png_chunk" /\ fn_out # <<>>) =>
        LET n == Len(fn_in.data)
        IN  /\ Len(fn_out) = n + 12
            /\ unpack_I(fn_out, 1) = n
            /\ SubSeq(fn_out, 5, 8) = fn_in.type
            /\ SubSeq(fn_out, 9, 8 + n) = fn_in.data
            /\ SubSeq(fn_out, n + 9, n + 12) = pack_I(crc32(fn_in.type \o fn_in.data))
            /\ (n = 0 /\ fn_in.type = <<73, 69, 78, 68>>)
                   => SubSeq(fn_out, 9, 12) = <<174, 66, 96, 130>>

C6_Witness ==
    /\ fn_in.fn = "png_chunk"
    /\ fn_in.type = <<116, 69, 88, 116>> /\ fn_in.data = <<0, 255, 0>>
    /\ fn_out = <<0, 0, 0, 3, 116, 69, 88, 116, 0, 255, 0, 165, 196, 254, 42>>

\* What the i-th icon file holds when it was written whole.
IconWhole(i) ==
    Whole(create_png(IconSize[i], IconSize[i], 99, 102, 241))
Printed(line) == \E k \in 1..Len(stdout) : stdout[k] = line

\* C7: a run that reaches its end has written exactly three files:
\* pwa-192x192.png holding create_png(192, 192, ...), pwa-512x512.png holding
\* create_png(512, 512, ...), apple-touch-icon.png holding
\* create_png(180, 180, ...), each written once, all with base colour
\* (99, 102, 241), and no other file.
C7_ThreeFilesOnSuccess ==
    At("done", 0) =>
        /\ fs["pwa-192x192.png"] = Whole(create_png(192, 192, 99, 102, 241))
        /\ fs["pwa-512x512.png"] = Whole(create_png(512, 512, 99, 102, 241))
        /\ fs["apple-touch-icon.png"] = Whole(create_png(180, 180, 99, 102, 241))
        /\ unpack_I(fs["pwa-192x192.png"].image.head, 17) = 192
        /\ unpack_I(fs["pwa-512x512.png"].image.head, 21) = 512
        /\ unpack_I(fs["apple-touch-icon.png"].image.head, 17) = 180
        /\ \A i \in Icons : writes[IconFile[i]] = 1
        /\ writes[OtherFile] = 0
        /\ fs[OtherFile] = fs0[OtherFile]

C7_Witness ==
    /\ At("done", 0)
    /\ fs0 = [f \in Files |-> IF f = "pwa-512x512.png" THEN Stale ELSE Absent]
    /\ \A i \in Icons : fs[IconFile[i]].kind = "whole"
    /\ fs[OtherFile] = Absent

\* C8: when making or writing an icon fails, the run stops at that step:
\* no retry, no later icon file touched, the files of the earlier steps
\* left as written, and the successful end never reached.
C8_HaltsOnFirstError ==
    \A i \in Icons :
        At("aborted", i) =>
            /\ \A j \in Icons : j > i =>
                  /\ fs[IconFile[j]] = fs0[IconFile[j]]
                  /\ writes[IconFile[j]] = 0
                  /\ png[j] = NoImage
            /\ \A j \in Icons : j < i =>
                  /\ fs[IconFile[j]] = IconWhole(j)
                  /\ writes[IconFile[j]] = 1
            /\ writes[IconFile[i]] <= 1
            /\ handle = None
            /\ ~Printed(AllCreated)
            /\ ~Printed(Created(i))
            /\ ~ENABLED MainNext

C8_Witness ==
    /\ At("aborted", 2)
    /\ fs["pwa-192x192.png"].kind = "whole"
    /\ fs["pwa-512x512.png"].kind = "partial"
    /\ fs["apple-touch-icon.png"] = Stale
    /\ stdout = <<"Created pwa-192x192.png">>

\* C10: 'Created <file>' is printed only after that file was written whole
\* and closed; the icons are made in the order pwa-192x192.png,
\* pwa-512x512.png, apple-touch-icon.png, each encoded before its file is
\* opened; 'All PWA icons created successfully!' is printed only after all
\* three files were written.
C10_PrintAfterWriteInOrder ==
    /\ \A i \in Icons : Printed(Created(i)) =>
          fs[IconFile[i]] = IconWhole(i) /\ handle # IconFile[i]
    /\ Len(stdout) <= 4
    /\ stdout = SubSeq(<<"Created pwa-192x192.png", "Created pwa-512x512.png",
                         "Created apple-touch-icon.png",
                         "All PWA icons created successfully!">>, 1, Len(stdout))
    /\ \A i \in Icons : fs[IconFile[i]] # fs0[IconFile[i]] =>
          /\ png[i] = create_png(IconSize[i], IconSize[i], 99, 102, 241)
          /\ \A j \in Icons : j < i => Printed(Created(j))
    /\ \A i \in Icons : png[i] # NoImage =>
          \A j \in Icons : j < i => Printed(Created(j))
    /\ Printed(AllCreated) => \A i \in Icons : fs[IconFile[i]] = IconWhole(i)

C10_Witness ==
    /\ stdout = <<"Created pwa-192x192.png", "Created pwa-512x512.png">>
    /\ handle = "apple-touch-icon.png"
    /\ fs["apple-touch-icon.png"] = Empty
    /\ png[3] # NoImage

=============================================================================
